---- MODULE Spec2Model ----
(***************************************************************************)
(* AI Subtitle Contextualizer: the clipboard-to-overlay pipeline.          *)
(*                                                                         *)
(*   Spec         the application, AISubtitleContextualizer.run(): the     *)
(*                main/UI thread, the clipboard polling thread it starts,  *)
(*                the user and the clipboard.                              *)
(*   MonitorSpec  one ClipboardMonitor driven by a caller that issues      *)
(*                start() and stop() in any order, with a callback that    *)
(*                may return, raise or block.                              *)
(*   TextSpec     TextProcessor.should_process applied to bounded strings. *)
(*                                                                         *)
(* A string is a sequence of one-character strings.  None is the Python    *)
(* None.                                                                   *)
(***************************************************************************)
EXTENDS Integers, Sequences, FiniteSets, TLC

VARIABLES
    \* ---- clipboard/monitor.py: ClipboardMonitor
    running,          \* self.running
    last_text,        \* self.last_text
    monitor_thread,   \* self.monitor_thread (NoThread is None)
    pc,               \* position of every thread object in its code
    target,           \* the function a thread object runs (None before it exists)
    current_text,     \* the local current_text / the callback's text argument
    \* ---- main.py: AISubtitleContextualizer
    is_processing,    \* self.is_processing
    response,         \* the local response of _process_text
    err,              \* the exception e caught by _process_text
    mpc,              \* position of the main (UI) thread
    exc,              \* exception travelling up the main thread
    \* ---- ai/prompt_manager.py, ai/llama_client.py
    prompt_file,      \* content of prompts/subtitle_explainer.md, None if absent
    system_prompt,    \* PromptManager.system_prompt
    is_available,     \* LlamaClient.is_available
    prompt_out,       \* what get_prompt_for_text(raw_text) did, NoPrompt before the call
    request,          \* the request ollama.chat is serving
    \* ---- ui/overlay_window.py: OverlayWindow
    update_queue,     \* self.update_queue
    is_visible,       \* self.is_visible
    should_exit,      \* self.should_exit
    window,           \* self.window is not None
    text_content,     \* what the text widget shows
    \* ---- the environment
    clipboard,        \* what pyperclip.paste() would return
    copies,           \* clipboard changes made so far
    hides,            \* clicks on the overlay's hide button so far
    \* ---- history (read by no action's guard)
    puts,             \* number of update_queue.put calls so far
    taken,            \* number of commands _process_queue has taken so far
    last_taken,       \* the command _process_queue took last
    loaded,           \* the cycles whose loading command has been applied
    cycles,           \* number of _process_text executions started so far
    cycle,            \* the _process_text execution a thread is in
    cycle_cmds,       \* commands the current _process_text executions enqueued
    clip_in_flight,   \* the clipboard content was copied while is_processing
    text_in_flight,   \* a thread's current_text was copied while is_processing
    last_fired,       \* the text a loop last called the callback with (None: none yet)
    start_calls,      \* number of start() calls so far
    \* ---- clipboard/text_processor.py: TextProcessor
    min_length,       \* self.min_length
    raw_text,         \* the text handed to should_process
    verdict,          \* what should_process returned ("unset" before the call)
    cleaned,          \* clean_subtitle_text(raw_text), Pending before the call
    recleaned,        \* clean_subtitle_text(cleaned), Pending before the call
    processed,        \* process_text(raw_text), Pending before the call
    reprocessed       \* process_text(processed), Pending before the call

vars == << running, last_text, monitor_thread, pc, target, current_text,
           is_processing, response, err, mpc, exc,
           prompt_file, system_prompt, is_available, prompt_out, request,
           update_queue, is_visible, should_exit, window, text_content,
           clipboard, copies, hides,
           puts, taken, last_taken, loaded, cycles, cycle, cycle_cmds,
           clip_in_flight, text_in_flight, last_fired, start_calls,
           min_length, raw_text, verdict, cleaned, recleaned, processed, reprocessed >>

monitor_vars == << running, last_text, monitor_thread >>
thread_vars == << pc, target, current_text, text_in_flight, last_fired >>
cycle_vars == << is_processing, response, err, request, cycles, cycle, cycle_cmds >>
main_vars == << mpc, exc >>
prompt_vars == << prompt_file, system_prompt, is_available, prompt_out >>
queue_vars == << update_queue, puts >>
overlay_vars == << is_visible, should_exit, window, text_content >>
taken_vars == << taken, last_taken, loaded >>
env_vars == << clipboard, copies, clip_in_flight >>
text_vars == << min_length, raw_text, verdict, cleaned, recleaned, processed, reprocessed >>
call_vars == << cleaned, recleaned, processed, reprocessed >>

-----------------------------------------------------------------------------
(* Bounds *)

\* Thread objects that can be created in one run.
MaxThreads == 3
\* Clipboard changes the user makes in one run.
MaxCopies == 2
\* Clicks on the overlay's hide button in one run.
MaxHides == 1
\* start() calls of the caller of MonitorSpec.
MaxStartCalls == 2
\* Longest string handed to the text filter.
MaxLen == 3
\* Most tokens in a prompt template of PromptSpec.
MaxTemplate == 2
\* Longest text handed to _render_markdown in RenderSpec.
MaxMarkdown == 8
\* Largest min_length a TextProcessor is built with.
MaxMinLength == 2

\* TextProcessor.__init__'s default min_length.
DefaultMinLength == 1

-----------------------------------------------------------------------------
(* Strings *)

None == << "None" >>
NoThread == 0
Threads == 1..MaxThreads

\* Characters str.strip() and \s treat as whitespace.
Whitespace == {" ", "\n"}
Alphabet == {" ", "\n", "a", "#"}

RECURSIVE StringsUpTo(_)
StringsUpTo(n) ==
    IF n = 0 THEN {<< >>}
    ELSE LET shorter == StringsUpTo(n - 1)
         IN  shorter \cup {Append(s, c) : s \in {x \in shorter : Len(x) = n - 1}, c \in Alphabet}

Strings == StringsUpTo(MaxLen)

RECURSIVE lstrip(_)
lstrip(s) ==
    IF s = << >> THEN s
    ELSE IF Head(s) \in Whitespace THEN lstrip(Tail(s)) ELSE s

RECURSIVE rstrip(_)
rstrip(s) ==
    IF s = << >> THEN s
    ELSE IF s[Len(s)] \in Whitespace THEN rstrip(SubSeq(s, 1, Len(s) - 1)) ELSE s

\* str.strip()
strip(s) == rstrip(lstrip(s))

\* Python truth value of a string or None.
Truthy(s) == s # None /\ s # << >>

\* The result of a call that has not been made yet.
Pending == << "pending" >>

-----------------------------------------------------------------------------
(* utils/text_utils.py *)

\* \w of the character class in clean_subtitle_text.
WordChars == {"a"}
\* The punctuation the character class keeps.
Punctuation == {".", ",", "!", "?", ":", ";", "-", "'", "\""}

\* re.sub(r'\s+', ' ', s): every run of whitespace becomes one space.
RECURSIVE collapse_whitespace(_)
collapse_whitespace(s) ==
    IF s = << >> THEN s
    ELSE IF Head(s) \in Whitespace
         THEN << " " >> \o collapse_whitespace(lstrip(s))
         ELSE << Head(s) >> \o collapse_whitespace(Tail(s))

\* re.sub(r'[^\w\s\.,\!\?\:\;\-\'""]', '', s): the characters outside the class
\* are deleted.
remove_artifacts(s) ==
    SelectSeq(s, LAMBDA c : c \in WordChars \cup Whitespace \cup Punctuation)

\* clean_subtitle_text
clean_subtitle_text(raw) ==
    IF ~Truthy(raw) THEN << >>
    ELSE remove_artifacts(collapse_whitespace(strip(raw)))

-----------------------------------------------------------------------------
(* clipboard/text_processor.py *)

\* A mutation of should_process: the length test is <= instead of <.
should_process_le(ml, text) ==
    IF ~Truthy(text) THEN FALSE
    ELSE IF Len(strip(text)) <= ml THEN FALSE
    ELSE TRUE

\* TextProcessor.should_process, ml being self.min_length.
should_process(ml, text) ==
    IF ~Truthy(text) THEN FALSE
    ELSE IF Len(strip(text)) < ml THEN FALSE
    ELSE TRUE

\* TextProcessor.process_text
process_text(ml, raw) ==
    IF ~should_process(ml, raw) THEN None
    ELSE LET text == clean_subtitle_text(raw)
         IN  IF ~Truthy(text) THEN None ELSE text

-----------------------------------------------------------------------------
(* utils/file_utils.py, ai/prompt_manager.py *)

\* A template is a sequence of tokens: a piece of literal text, or one of the
\* replacement fields below as str.format reads them.
PrimaryField == "{subtitle_text}"
FallbackField == "{text}"
OtherField == "{other}"              \* a field naming no argument: KeyError
EscapedPrimary == "{{subtitle_text}}" \* doubled braces: the literal {subtitle_text}
PositionalField == "{}"              \* no positional argument: IndexError
LoneBrace == "{"                     \* unmatched brace: ValueError
Suffix == "\n\nText to analyze: "

\* str.format(**{field: text}) on a template, read left to right; the first
\* field that fails raises.
RECURSIVE format(_, _, _)
format(tpl, field, text) ==
    IF tpl = << >> THEN [exc |-> "none", val |-> << >>]
    ELSE LET tok == Head(tpl)
             rest == format(Tail(tpl), field, text)
             lit(v) == IF rest.exc = "none"
                       THEN [exc |-> "none", val |-> v \o rest.val]
                       ELSE rest
         IN  CASE tok = field -> lit(text)
               [] tok = EscapedPrimary -> lit(<< PrimaryField >>)
               [] tok \in {PrimaryField, FallbackField, OtherField} ->
                      [exc |-> "KeyError", val |-> << >>]
               [] tok = PositionalField -> [exc |-> "IndexError", val |-> << >>]
               [] tok = LoneBrace -> [exc |-> "ValueError", val |-> << >>]
               [] OTHER -> lit(<< tok >>)

\* needle in template, for the two placeholders the code looks for.
Contains(tpl, needle) ==
    \E i \in 1..Len(tpl) :
        \/ tpl[i] = needle
        \/ needle = PrimaryField /\ tpl[i] = EscapedPrimary

\* load_prompt: the file's content stripped, None when the file is missing.
load_prompt(file) == IF file = None THEN None ELSE strip(file)

\* PromptManager.get_prompt_for_text: [exc, val], exc being the exception that
\* leaves the method ("none" when it returns val).
get_prompt_for_text(prompt, text) ==
    LET appended == [exc |-> "none", val |-> prompt \o << Suffix >> \o text]
        with(field) == LET r == format(prompt, field, text)
                       IN  IF r.exc = "KeyError" THEN appended ELSE r
    IN  IF Contains(prompt, PrimaryField) THEN with(PrimaryField)
        ELSE IF Contains(prompt, FallbackField) THEN with(FallbackField)
        ELSE appended

\* The result of a get_prompt_for_text call that has not been made yet.
NoPrompt == [exc |-> "pending", val |-> << >>]

\* What a prompt file is made of.
Tokens == { "p", PrimaryField, FallbackField, OtherField, EscapedPrimary,
            PositionalField, LoneBrace }

RECURSIVE TemplatesUpTo(_)
TemplatesUpTo(n) ==
    IF n = 0 THEN {<< >>}
    ELSE LET shorter == TemplatesUpTo(n - 1)
         IN  shorter \cup {Append(s, c) : s \in {x \in shorter : Len(x) = n - 1}, c \in Tokens}

\* The prompt files of PromptSpec: absent, empty, or any template.
TemplateFiles == {None} \cup TemplatesUpTo(MaxTemplate)

-----------------------------------------------------------------------------
(* Values *)

\* What the user copies.
ClipTexts == { << " " >>, << "a" >>, << "#" >> }
\* What ollama.chat answers.
Responses == { << "r" >> }
\* prompts/subtitle_explainer.md in a run of the application.
PromptFiles == { None, << "p", PrimaryField >>, << PrimaryField, LoneBrace >> }

NoRequest == [user |-> None, system |-> None]
LoadingText == << "Procesando con Llama..." >>
ErrorBanner(msg) == << "Error\n\n" >> \o msg

Unborn == [t \in Threads |-> "unborn"]
NoTexts == [t \in Threads |-> None]
Zeros == [t \in Threads |-> 0]
Flags == [t \in Threads |-> FALSE]
NoCmds == [t \in Threads |-> << >>]

\* The process has not exited: its daemon threads still run.
ProcessAlive == mpc \notin {"returned", "crashed"}

\* The thread object the next threading.Thread(...) creates.
FreshThread == CHOOSE u \in Threads : pc[u] = "unborn" /\ \A v \in Threads : pc[v] = "unborn" => u <= v

-----------------------------------------------------------------------------
(* ui/overlay_window.py: the update queue *)

\* A mutation of queue_put: the command goes to the front of the queue.
queue_put_front(q, e) == << e >> \o q

\* queue.Queue.put: the command goes to the back of the queue.
queue_put(q, e) == Append(q, e)

\* OverlayWindow.queue_update((action, args)); seq and cycle are history.
queue_update(action, args, cyc) ==
    /\ update_queue' = queue_put(update_queue,
            [action |-> action, args |-> args, seq |-> puts + 1, cycle |-> cyc])
    /\ puts' = puts + 1

-----------------------------------------------------------------------------
(* clipboard/monitor.py *)

\* A mutation of start: the running test is missing.
start_unguarded ==
    /\ start_calls' = start_calls + 1
    /\ running' = TRUE
    /\ monitor_thread' = FreshThread
    /\ pc' = [pc EXCEPT ![FreshThread] = "loop_init"]
    /\ target' = [target EXCEPT ![FreshThread] = << "monitor_loop" >>]
    /\ UNCHANGED last_text

\* ClipboardMonitor.start
start ==
    /\ start_calls' = start_calls + 1
    /\ IF running
       THEN UNCHANGED << monitor_vars, pc, target >>
       ELSE /\ running' = TRUE
            /\ monitor_thread' = FreshThread
            /\ pc' = [pc EXCEPT ![FreshThread] = "loop_init"]
            /\ target' = [target EXCEPT ![FreshThread] = << "monitor_loop" >>]
            /\ UNCHANGED last_text

\* ClipboardMonitor.stop up to the join: joinPc is where the caller waits,
\* retPc where it goes on when stop() returns.
stop_begin(joinPc, retPc) ==
    IF ~running
    THEN /\ mpc' = retPc
         /\ UNCHANGED monitor_vars
    ELSE /\ running' = FALSE
         /\ mpc' = IF monitor_thread # NoThread THEN joinPc ELSE retPc
         /\ UNCHANGED << last_text, monitor_thread >>

\* A mutation of join: no timeout.
join_forever(th) == pc[th] = "ended"

\* Thread.join(timeout=2.0) returns: the thread has ended, or 2.0 s have passed.
join(th) == pc[th] = "ended" \/ TRUE

\* ClipboardMonitor.stop: the join returns, and stop() with it.
stop_join(joinPc, retPc) ==
    /\ mpc = joinPc
    /\ join(monitor_thread)
    /\ mpc' = retPc

beside_loop == << cycle_vars, main_vars, prompt_vars, queue_vars, overlay_vars,
                  taken_vars, env_vars, hides, start_calls, text_vars >>

\* _monitor_loop: self.last_text = pyperclip.paste() or "", "" if paste() raises.
LoopInit(t) ==
    /\ ProcessAlive
    /\ pc[t] = "loop_init"
    /\ \E ok \in BOOLEAN : last_text' = IF ok THEN clipboard ELSE << >>
    /\ pc' = [pc EXCEPT ![t] = "loop_while"]
    /\ UNCHANGED << running, monitor_thread, target, current_text, text_in_flight,
                    last_fired, beside_loop >>

\* _monitor_loop: while self.running, reached at the start and after each
\* time.sleep; when it is false the function returns and its locals are gone.
LoopWhile(t) ==
    /\ ProcessAlive
    /\ pc[t] = "loop_while"
    /\ pc' = [pc EXCEPT ![t] = IF running THEN "loop_read" ELSE "ended"]
    /\ current_text' = [current_text EXCEPT ![t] = IF running THEN @ ELSE None]
    /\ text_in_flight' = [text_in_flight EXCEPT ![t] = running /\ @]
    /\ last_fired' = [last_fired EXCEPT ![t] = IF running THEN @ ELSE None]
    /\ UNCHANGED << monitor_vars, target, beside_loop >>

\* _monitor_loop: current_text = pyperclip.paste() or ""; when paste() raises
\* the loop sleeps 1.0 s and tests self.running again.
LoopRead(t) ==
    /\ ProcessAlive
    /\ pc[t] = "loop_read"
    /\ \/ /\ current_text' = [current_text EXCEPT ![t] = clipboard]
          /\ text_in_flight' = [text_in_flight EXCEPT ![t] = clip_in_flight]
          /\ pc' = [pc EXCEPT ![t] = "loop_cmp"]
       \/ /\ pc' = [pc EXCEPT ![t] = "loop_while"]
          /\ UNCHANGED << current_text, text_in_flight >>
    /\ UNCHANGED << monitor_vars, target, last_fired, beside_loop >>

\* A mutation of LoopCompare: the test for blank text is missing.
LoopCompareAnyText(t) ==
    /\ ProcessAlive
    /\ pc[t] = "loop_cmp"
    /\ pc' = [pc EXCEPT ![t] =
                IF current_text[t] # last_text THEN "loop_fire" ELSE "loop_while"]
    /\ UNCHANGED << monitor_vars, target, current_text, text_in_flight, last_fired,
                    beside_loop >>

\* _monitor_loop: if current_text != self.last_text and current_text.strip();
\* otherwise time.sleep(self.check_interval).
LoopCompare(t) ==
    /\ ProcessAlive
    /\ pc[t] = "loop_cmp"
    /\ pc' = [pc EXCEPT ![t] =
                IF current_text[t] # last_text /\ Truthy(strip(current_text[t]))
                THEN "loop_fire" ELSE "loop_while"]
    /\ UNCHANGED << monitor_vars, target, current_text, text_in_flight, last_fired,
                    beside_loop >>

\* A mutation of Invoke: the callback is handed to a new thread and the loop
\* goes on without waiting for it.
InvokeAsync(t) ==
    /\ \E u \in Threads : pc[u] = "unborn"
    /\ pc' = [pc EXCEPT ![t] = "loop_while", ![FreshThread] = "cb_entry"]
    /\ target' = [target EXCEPT ![FreshThread] = << "callback" >>]
    /\ current_text' = [current_text EXCEPT ![FreshThread] = current_text[t]]
    /\ text_in_flight' = [text_in_flight EXCEPT ![FreshThread] = text_in_flight[t]]
    /\ last_fired' = [last_fired EXCEPT ![t] = current_text[t]]

\* self.callback(current_text): a synchronous call on the loop's own thread.
Invoke(t) ==
    /\ pc' = [pc EXCEPT ![t] = "cb_entry"]
    /\ last_fired' = [last_fired EXCEPT ![t] = current_text[t]]
    /\ UNCHANGED << target, current_text, text_in_flight >>

\* _monitor_loop: self.last_text = current_text, then the callback is called.
LoopFire(t) ==
    /\ ProcessAlive
    /\ pc[t] = "loop_fire"
    /\ last_text' = current_text[t]
    /\ Invoke(t)
    /\ UNCHANGED << running, monitor_thread, beside_loop >>

\* A mutation of LoopAfterCallback: an exception of the callback is not
\* caught and ends the thread.
LoopAfterCallbackUncaught(t) ==
    /\ ProcessAlive
    /\ pc[t] \in {"cb_return", "cb_raise"}
    /\ pc' = [pc EXCEPT ![t] = IF target[t] = << "monitor_loop" >> /\ pc[t] = "cb_return"
                                THEN "loop_while" ELSE "ended"]
    /\ UNCHANGED << monitor_vars, target, current_text, text_in_flight, last_fired,
                    beside_loop >>

\* _monitor_loop: the callback returned, or raised and the except clause
\* printed the error; then time.sleep(self.check_interval).  A thread that ran
\* only the callback ends.
LoopAfterCallback(t) ==
    /\ ProcessAlive
    /\ pc[t] \in {"cb_return", "cb_raise"}
    /\ pc' = [pc EXCEPT ![t] = IF target[t] = << "monitor_loop" >> THEN "loop_while" ELSE "ended"]
    /\ UNCHANGED << monitor_vars, target, current_text, text_in_flight, last_fired,
                    beside_loop >>

-----------------------------------------------------------------------------
(* main.py: the callback, on the thread that calls it *)

beside_cycle == << monitor_vars, target, current_text, text_in_flight, last_fired,
                   main_vars,
                   prompt_vars, overlay_vars, taken_vars, env_vars, hides,
                   start_calls, text_vars >>

\* _on_text_detected: if self.is_processing: return
OnTextDetected(t) ==
    /\ ProcessAlive
    /\ pc[t] = "cb_entry"
    /\ pc' = [pc EXCEPT ![t] = IF is_processing THEN "cb_return" ELSE "pt_start"]
    /\ UNCHANGED << cycle_vars, queue_vars, beside_cycle >>

\* A mutation of ProcessStart: show_loading acts on the widgets itself
\* instead of enqueuing a command.
ProcessStartDirect(t) ==
    /\ ProcessAlive
    /\ pc[t] = "pt_start"
    /\ is_processing' = TRUE
    /\ cycles' = cycles + 1
    /\ cycle' = [cycle EXCEPT ![t] = cycles + 1]
    /\ text_content' = [text |-> LoadingText, tags |-> << >>]
    /\ is_visible' = TRUE
    /\ cycle_cmds' = [cycle_cmds EXCEPT ![t] = << "loading" >>]
    /\ pc' = [pc EXCEPT ![t] = "pt_prompt"]
    /\ UNCHANGED << response, err, request, queue_vars, monitor_vars, target,
                    current_text, text_in_flight, last_fired, main_vars, prompt_vars,
                    should_exit,
                    window, taken_vars, env_vars, hides, start_calls, text_vars >>

\* _process_text: self.is_processing = True; self.overlay.show_loading()
ProcessStart(t) ==
    /\ ProcessAlive
    /\ pc[t] = "pt_start"
    /\ is_processing' = TRUE
    /\ cycles' = cycles + 1
    /\ cycle' = [cycle EXCEPT ![t] = cycles + 1]
    /\ queue_update("loading", << >>, cycles + 1)
    /\ cycle_cmds' = [cycle_cmds EXCEPT ![t] = << "loading" >>]
    /\ pc' = [pc EXCEPT ![t] = "pt_prompt"]
    /\ UNCHANGED << response, err, request, beside_cycle >>

\* _process_text: formatted_prompt = get_prompt_for_text(text), which may
\* raise; then LlamaClient.get_context up to ollama.chat: None when the library
\* is missing or the text is blank, else the request goes out.
ProcessCall(t) ==
    /\ ProcessAlive
    /\ pc[t] = "pt_prompt"
    /\ LET r == get_prompt_for_text(system_prompt, current_text[t])
       IN  IF r.exc # "none"
           THEN /\ err' = [err EXCEPT ![t] = << r.exc >>]
                /\ pc' = [pc EXCEPT ![t] = "pt_except"]
                /\ UNCHANGED << response, request >>
           ELSE IF ~is_available \/ ~Truthy(current_text[t])
                   \/ ~Truthy(strip(current_text[t]))
           THEN /\ response' = [response EXCEPT ![t] = None]
                /\ pc' = [pc EXCEPT ![t] = "pt_content"]
                /\ UNCHANGED << err, request >>
           ELSE /\ request' = [request EXCEPT ![t] =
                                 [user |-> current_text[t], system |-> r.val]]
                /\ pc' = [pc EXCEPT ![t] = "pt_wait"]
                /\ UNCHANGED << response, err >>
    /\ UNCHANGED << is_processing, cycles, cycle, cycle_cmds, queue_vars, beside_cycle >>

\* A mutation of ProviderReturns: the call is given up once the watcher has
\* been stopped.
ProviderReturnsUnlessStopped(t) ==
    /\ running
    /\ ProcessAlive
    /\ pc[t] = "pt_wait"
    /\ \E r \in Responses \cup {None} : response' = [response EXCEPT ![t] = r]
    /\ request' = [request EXCEPT ![t] = NoRequest]
    /\ pc' = [pc EXCEPT ![t] = "pt_content"]
    /\ UNCHANGED << is_processing, err, cycles, cycle, cycle_cmds, queue_vars, beside_cycle >>

\* LlamaClient.get_context: ollama.chat answers, or raises and get_context
\* returns None.
ProviderReturns(t) ==
    /\ ProcessAlive
    /\ pc[t] = "pt_wait"
    /\ \E r \in Responses \cup {None} : response' = [response EXCEPT ![t] = r]
    /\ request' = [request EXCEPT ![t] = NoRequest]
    /\ pc' = [pc EXCEPT ![t] = "pt_content"]
    /\ UNCHANGED << is_processing, err, cycles, cycle, cycle_cmds, queue_vars, beside_cycle >>

\* A mutation of ProcessContent: a response of None is not displayed at all.
ProcessContentUnlessNone(t) ==
    /\ ProcessAlive
    /\ pc[t] = "pt_content"
    /\ IF response[t] = None
       THEN UNCHANGED << queue_vars, cycle_cmds >>
       ELSE /\ queue_update("content", response[t], cycle[t])
            /\ cycle_cmds' = [cycle_cmds EXCEPT ![t] = Append(@, "content")]
    /\ pc' = [pc EXCEPT ![t] = "pt_finally"]
    /\ UNCHANGED << is_processing, response, err, request, cycles, cycle, beside_cycle >>

\* _process_text: self.overlay.update_content(response)
ProcessContent(t) ==
    /\ ProcessAlive
    /\ pc[t] = "pt_content"
    /\ queue_update("content", response[t], cycle[t])
    /\ cycle_cmds' = [cycle_cmds EXCEPT ![t] = Append(@, "content")]
    /\ pc' = [pc EXCEPT ![t] = "pt_finally"]
    /\ UNCHANGED << is_processing, response, err, request, cycles, cycle, beside_cycle >>

\* A mutation of ProcessExcept: is_processing is cleared at the end of the try
\* block only, so the except path returns without clearing it.
ProcessExceptNoFinally(t) ==
    /\ ProcessAlive
    /\ pc[t] = "pt_except"
    /\ queue_update("error", err[t], cycle[t])
    /\ cycle_cmds' = [cycle_cmds EXCEPT ![t] = Append(@, "error")]
    /\ pc' = [pc EXCEPT ![t] = "cb_return"]
    /\ UNCHANGED << is_processing, response, err, request, cycles, cycle, beside_cycle >>

\* _process_text: except Exception as e: self.overlay.show_error(str(e))
ProcessExcept(t) ==
    /\ ProcessAlive
    /\ pc[t] = "pt_except"
    /\ queue_update("error", err[t], cycle[t])
    /\ cycle_cmds' = [cycle_cmds EXCEPT ![t] = Append(@, "error")]
    /\ pc' = [pc EXCEPT ![t] = "pt_finally"]
    /\ UNCHANGED << is_processing, response, err, request, cycles, cycle, beside_cycle >>

\* _process_text: finally: self.is_processing = False, and the return
ProcessFinally(t) ==
    /\ ProcessAlive
    /\ pc[t] = "pt_finally"
    /\ is_processing' = FALSE
    /\ response' = [response EXCEPT ![t] = None]
    /\ err' = [err EXCEPT ![t] = None]
    /\ cycle' = [cycle EXCEPT ![t] = 0]
    /\ cycle_cmds' = [cycle_cmds EXCEPT ![t] = << >>]
    /\ pc' = [pc EXCEPT ![t] = "cb_return"]
    /\ UNCHANGED << request, cycles, queue_vars, beside_cycle >>

-----------------------------------------------------------------------------
(* ui/overlay_window.py: what the UI thread does with a command *)

\* k marker characters start at position i of s.
StarsAt(s, i, k) == i + k - 1 <= Len(s) /\ \A d \in 0..(k - 1) : s[i + d] = "*"

\* Length of group 1 of the match of \*{k}(.+?)\*{k} starting at position i of
\* s, 0 if there is none: the shortest run of one or more non-newline
\* characters between k markers at i and k markers after it.
MatchLen(s, i, k) ==
    LET N == { n \in 1..Len(s) :
                 /\ StarsAt(s, i, k)
                 /\ StarsAt(s, i + k + n, k)
                 /\ \A d \in 0..(n - 1) : s[i + k + d] # "\n" }
    IN  IF N = {} THEN 0 ELSE CHOOSE n \in N : \A m \in N : n <= m

\* One pass of _render_markdown over s from position i, for the pattern with k
\* markers: out is processed_text so far, ranges is format_ranges so far.
RECURSIVE RenderPass(_, _, _, _, _, _)
RenderPass(s, i, k, tag, out, ranges) ==
    IF i > Len(s) THEN [text |-> out, tags |-> ranges]
    ELSE LET n == MatchLen(s, i, k)
         IN  IF n = 0
             THEN RenderPass(s, i + 1, k, tag, Append(out, s[i]), ranges)
             ELSE RenderPass(s, i + 2 * k + n, k, tag,
                             out \o SubSeq(s, i + k, i + k + n - 1),
                             Append(ranges, [start |-> Len(out), end |-> Len(out) + n,
                                             tag |-> tag]))

\* A mutation of _render_markdown: the patterns are tried in the opposite
\* order, the single marker first.
render_markdown_single_first(text) ==
    LET p1 == RenderPass(text, 1, 1, "italic", << >>, << >>)
        p2 == RenderPass(p1.text, 1, 2, "bold", << >>, p1.tags)
        p3 == RenderPass(p2.text, 1, 3, "bold_italic", << >>, p2.tags)
    IN  p3

\* _render_markdown: the text inserted and the tag ranges added.
render_markdown(text) ==
    LET p3 == RenderPass(text, 1, 3, "bold_italic", << >>, << >>)
        p2 == RenderPass(p3.text, 1, 2, "bold", << >>, p3.tags)
        p1 == RenderPass(p2.text, 1, 1, "italic", << >>, p2.tags)
    IN  p1

Plain(text) == [text |-> text, tags |-> << >>]
NoCommand == [action |-> "none", args |-> << >>, seq |-> 0, cycle |-> 0]

\* A mutation of queue_get: the newest command is taken.
queue_get_last(q) == [head |-> q[Len(q)], rest |-> SubSeq(q, 1, Len(q) - 1)]

\* queue.Queue.get_nowait on a non-empty queue: the oldest command is taken.
queue_get(q) == [head |-> Head(q), rest |-> Tail(q)]

\* A mutation of cleanup: _cleanup does not stop the watcher.
cleanup_without_stop(e) ==
    /\ exc' = e
    /\ mpc' = "destroy"
    /\ UNCHANGED monitor_vars

\* run: the try block is left (the loop ended, or e was raised in it) and
\* finally runs _cleanup, which calls self.clipboard_monitor.stop().
cleanup(e) ==
    /\ exc' = e
    /\ stop_begin("stop_join", "destroy")

\* _do_show / _do_hide / _do_show_loading / _do_show_error / _do_update_content
\* for one command e, on the UI thread.  _render_markdown(None) raises
\* TypeError in re.finditer, after the widget was cleared and before _do_show;
\* nothing up to run catches it.
ApplyCommand(e) ==
    CASE e.action = "show" ->
            /\ is_visible' = TRUE
            /\ UNCHANGED << text_content, main_vars, monitor_vars >>
      [] e.action = "hide" ->
            /\ is_visible' = FALSE
            /\ UNCHANGED << text_content, main_vars, monitor_vars >>
      [] e.action = "loading" ->
            /\ text_content' = Plain(LoadingText)
            /\ is_visible' = TRUE
            /\ UNCHANGED << main_vars, monitor_vars >>
      [] e.action = "error" ->
            /\ text_content' = Plain(ErrorBanner(e.args))
            /\ is_visible' = TRUE
            /\ UNCHANGED << main_vars, monitor_vars >>
      [] e.action = "content" /\ e.args # None ->
            /\ text_content' = render_markdown(e.args)
            /\ is_visible' = TRUE
            /\ UNCHANGED << main_vars, monitor_vars >>
      [] e.action = "content" /\ e.args = None ->
            /\ text_content' = Plain(<< >>)
            /\ cleanup("TypeError")
            /\ UNCHANGED is_visible

-----------------------------------------------------------------------------
(* main.py: the main thread *)

\* A mutation of AppInit: a missing prompt file is replaced by a default
\* prompt instead of raising.
AppInitDefaultPrompt ==
    /\ mpc = "init"
    /\ LET prompt == load_prompt(prompt_file)
       IN  system_prompt' = IF Truthy(prompt) THEN prompt ELSE << "p" >>
    /\ mpc' = "run"
    /\ UNCHANGED << monitor_vars, thread_vars, cycle_vars, exc, prompt_file, is_available,
                    prompt_out, queue_vars, overlay_vars, taken_vars, env_vars, hides,
                    start_calls, text_vars >>

\* AISubtitleContextualizer.__init__: PromptManager() loads the prompt file and
\* raises FileNotFoundError when load_prompt returns nothing.
AppInit ==
    /\ mpc = "init"
    /\ LET prompt == load_prompt(prompt_file)
       IN  IF Truthy(prompt)
           THEN /\ system_prompt' = prompt
                /\ mpc' = "run"
                /\ UNCHANGED exc
           ELSE /\ exc' = "FileNotFoundError"
                /\ mpc' = "crashed"
                /\ UNCHANGED system_prompt
    /\ UNCHANGED << monitor_vars, thread_vars, cycle_vars, prompt_file, is_available,
                    prompt_out, queue_vars, overlay_vars, taken_vars, env_vars, hides,
                    start_calls, text_vars >>

\* run: self.clipboard_monitor.start()
RunStart ==
    /\ mpc = "run"
    /\ start
    /\ mpc' = "ui_test"
    /\ UNCHANGED << current_text, text_in_flight, last_fired, cycle_vars, exc,
                    prompt_vars,
                    queue_vars, overlay_vars, taken_vars, env_vars, hides, text_vars >>

\* run: while not self.overlay.should_exit; when the loop ends, finally
UiTest ==
    /\ mpc = "ui_test"
    /\ IF should_exit
       THEN cleanup(exc)
       ELSE /\ mpc' = "ui_drain"
            /\ UNCHANGED << exc, monitor_vars >>
    /\ UNCHANGED << thread_vars, cycle_vars, prompt_vars, queue_vars, overlay_vars,
                    taken_vars, env_vars, hides, start_calls, text_vars >>

\* _process_queue: get_nowait returns a command and its effect is applied.
UiDrainOne ==
    /\ mpc = "ui_drain"
    /\ update_queue # << >>
    /\ LET g == queue_get(update_queue)
       IN  /\ update_queue' = g.rest
           /\ taken' = taken + 1
           /\ last_taken' = g.head
           /\ loaded' = IF g.head.action = "loading"
                        THEN loaded \cup {g.head.cycle} ELSE loaded
           /\ ApplyCommand(g.head)
    /\ UNCHANGED << thread_vars, cycle_vars, prompt_vars, puts, should_exit, window,
                    env_vars, hides, start_calls, text_vars >>

\* _process_queue: get_nowait raises queue.Empty; then self.window.update()
\* runs the handlers of the window events that wait (_on_close for the close
\* box, self.hide for the hide button), and run sleeps 0.05 s.
UiUpdate ==
    /\ mpc = "ui_drain"
    /\ update_queue = << >>
    /\ \E close \in BOOLEAN, hide \in BOOLEAN :
          /\ hide => hides < MaxHides
          /\ should_exit' = (should_exit \/ close)
          /\ hides' = IF hide THEN hides + 1 ELSE hides
          /\ IF hide THEN queue_update("hide", << >>, 0) ELSE UNCHANGED queue_vars
    /\ mpc' = "ui_test"
    /\ UNCHANGED << monitor_vars, thread_vars, cycle_vars, exc, prompt_vars,
                    is_visible, window, text_content, taken_vars,
                    env_vars, start_calls, text_vars >>

\* Ctrl+C: KeyboardInterrupt in the main thread inside run's try block;
\* except KeyboardInterrupt, then finally.
Interrupt ==
    /\ mpc \in {"run", "ui_test", "ui_drain"}
    /\ cleanup("KeyboardInterrupt")
    /\ UNCHANGED << thread_vars, cycle_vars, prompt_vars, queue_vars, overlay_vars,
                    taken_vars, env_vars, hides, start_calls, text_vars >>

\* _cleanup: the join inside stop() returns
CleanupJoin ==
    /\ stop_join("stop_join", "destroy")
    /\ UNCHANGED << monitor_vars, thread_vars, cycle_vars, exc, prompt_vars,
                    queue_vars, overlay_vars, taken_vars, env_vars, hides,
                    start_calls, text_vars >>

\* _cleanup: self.overlay.destroy(); run() then returns, or the exception that
\* ended the loop leaves main() and the process dies with it.
CleanupDestroy ==
    /\ mpc = "destroy"
    /\ window' = FALSE
    /\ mpc' = IF exc = "TypeError" THEN "crashed" ELSE "returned"
    /\ UNCHANGED << monitor_vars, thread_vars, cycle_vars, exc, prompt_vars,
                    queue_vars, is_visible, should_exit, text_content, taken_vars,
                    env_vars, hides, start_calls, text_vars >>

-----------------------------------------------------------------------------
(* The user and the clipboard *)

\* The user copies a text other than the one on the clipboard.
UserCopy ==
    /\ ProcessAlive
    /\ copies < MaxCopies
    /\ \E x \in ClipTexts \ {clipboard} : clipboard' = x
    /\ clip_in_flight' = is_processing
    /\ copies' = copies + 1
    /\ UNCHANGED << monitor_vars, thread_vars, cycle_vars, main_vars, prompt_vars,
                    queue_vars, overlay_vars, taken_vars, hides, start_calls, text_vars >>

-----------------------------------------------------------------------------
(* The application *)

\* What is the same at the start of every specification.
Start ==
    /\ running = FALSE
    /\ last_text = << >>
    /\ monitor_thread = NoThread
    /\ pc = Unborn
    /\ target = NoTexts
    /\ current_text = NoTexts
    /\ is_processing = FALSE
    /\ response = NoTexts
    /\ err = NoTexts
    /\ exc = "none"
    /\ system_prompt = None
    /\ request = [t \in Threads |-> NoRequest]
    /\ update_queue = << >>
    /\ is_visible = FALSE
    /\ should_exit = FALSE
    /\ window = TRUE
    /\ text_content = Plain(<< >>)
    /\ copies = 0
    /\ hides = 0
    /\ puts = 0
    /\ taken = 0
    /\ last_taken = NoCommand
    /\ loaded = {}
    /\ cycles = 0
    /\ cycle = Zeros
    /\ cycle_cmds = NoCmds
    /\ clip_in_flight = FALSE
    /\ text_in_flight = Flags
    /\ last_fired = NoTexts
    /\ start_calls = 0
    /\ prompt_out = NoPrompt
    /\ cleaned = Pending
    /\ recleaned = Pending
    /\ processed = Pending
    /\ reprocessed = Pending

\* main(): the objects as their constructors leave them (OverlayWindow:
\* hidden, empty queue; ClipboardMonitor: stopped; is_processing False), with
\* any prompt file, ollama installed or not, and anything on the clipboard.
Init ==
    /\ Start
    /\ mpc = "init"
    /\ prompt_file \in PromptFiles
    /\ is_available \in BOOLEAN
    /\ clipboard \in ClipTexts
    /\ min_length = DefaultMinLength
    /\ raw_text = << >>
    /\ verdict = "unset"

MonitorLoop(t) ==
    \/ LoopInit(t) \/ LoopWhile(t) \/ LoopRead(t) \/ LoopCompare(t) \/ LoopFire(t)
    \/ LoopAfterCallback(t)

Callback(t) ==
    \/ OnTextDetected(t) \/ ProcessStart(t) \/ ProcessCall(t) \/ ProviderReturns(t)
    \/ ProcessContent(t) \/ ProcessExcept(t) \/ ProcessFinally(t)

Main ==
    \/ AppInit \/ RunStart \/ UiTest \/ UiDrainOne \/ UiUpdate
    \/ Interrupt \/ CleanupJoin \/ CleanupDestroy

Next ==
    \/ \E t \in Threads : MonitorLoop(t) \/ Callback(t)
    \/ Main
    \/ UserCopy

Spec == Init /\ [][Next]_vars

\* The operating system schedules every thread of the living process, and
\* ollama.chat returns or raises.
FairSpec == Spec /\ \A t \in Threads : WF_vars(Callback(t))

-----------------------------------------------------------------------------
(* One ClipboardMonitor, its caller and its callback *)

beside_monitor == << cycle_vars, exc, prompt_vars, queue_vars, overlay_vars,
                     taken_vars, env_vars, hides, text_vars >>

\* The caller calls start().
CallStart ==
    /\ mpc = "idle"
    /\ start_calls < MaxStartCalls
    /\ running \/ \E u \in Threads : pc[u] = "unborn"
    /\ start
    /\ UNCHANGED << mpc, current_text, text_in_flight, last_fired, beside_monitor >>

\* The caller calls stop().
CallStop ==
    /\ mpc = "idle"
    /\ stop_begin("join", "idle")
    /\ UNCHANGED << thread_vars, start_calls, beside_monitor >>

\* The join inside stop() returns, and stop() with it.
CallStopJoin ==
    /\ stop_join("join", "idle")
    /\ UNCHANGED << monitor_vars, thread_vars, start_calls, beside_monitor >>

\* The callback returns.
CallbackReturns(t) ==
    /\ pc[t] = "cb_entry"
    /\ pc' = [pc EXCEPT ![t] = "cb_return"]
    /\ UNCHANGED << monitor_vars, target, current_text, text_in_flight, last_fired, mpc,
                    start_calls, beside_monitor >>

\* The callback raises.
CallbackRaises(t) ==
    /\ pc[t] = "cb_entry"
    /\ pc' = [pc EXCEPT ![t] = "cb_raise"]
    /\ UNCHANGED << monitor_vars, target, current_text, text_in_flight, last_fired, mpc,
                    start_calls, beside_monitor >>

\* ClipboardMonitor.__init__, with anything on the clipboard.
MonitorInit ==
    /\ Start
    /\ mpc = "idle"
    /\ prompt_file = None
    /\ is_available = FALSE
    /\ clipboard \in ClipTexts
    /\ min_length = DefaultMinLength
    /\ raw_text = << >>
    /\ verdict = "unset"

MonitorNext ==
    \/ \E t \in Threads : MonitorLoop(t) \/ CallbackReturns(t) \/ CallbackRaises(t)
    \/ CallStart \/ CallStop \/ CallStopJoin
    \/ UserCopy

MonitorSpec == MonitorInit /\ [][MonitorNext]_vars

\* stop() is a call in progress: its join does return.
FairMonitorSpec == MonitorSpec /\ WF_vars(CallStopJoin)

-----------------------------------------------------------------------------
(* The text filter on its own *)

\* should_process(raw_text) is called.
ShouldProcess ==
    /\ mpc = "filter"
    /\ verdict = "unset"
    /\ verdict' = IF should_process(min_length, raw_text) THEN "True" ELSE "False"
    /\ UNCHANGED << monitor_vars, thread_vars, cycle_vars, main_vars, prompt_vars,
                    queue_vars, overlay_vars, taken_vars, env_vars, hides,
                    start_calls, min_length, raw_text, call_vars >>

\* clean_subtitle_text(raw_text) is called.
CleanText ==
    /\ mpc = "filter"
    /\ cleaned = Pending
    /\ cleaned' = clean_subtitle_text(raw_text)
    /\ UNCHANGED << monitor_vars, thread_vars, cycle_vars, main_vars, prompt_vars,
                    queue_vars, overlay_vars, taken_vars, env_vars, hides,
                    start_calls, min_length, raw_text, verdict,
                    recleaned, processed, reprocessed >>

\* clean_subtitle_text is called on its own result.
CleanAgain ==
    /\ mpc = "filter"
    /\ cleaned # Pending
    /\ recleaned = Pending
    /\ recleaned' = clean_subtitle_text(cleaned)
    /\ UNCHANGED << monitor_vars, thread_vars, cycle_vars, main_vars, prompt_vars,
                    queue_vars, overlay_vars, taken_vars, env_vars, hides,
                    start_calls, min_length, raw_text, verdict,
                    cleaned, processed, reprocessed >>

\* process_text(raw_text) is called.
ProcessText ==
    /\ mpc = "filter"
    /\ processed = Pending
    /\ processed' = process_text(min_length, raw_text)
    /\ UNCHANGED << monitor_vars, thread_vars, cycle_vars, main_vars, prompt_vars,
                    queue_vars, overlay_vars, taken_vars, env_vars, hides,
                    start_calls, min_length, raw_text, verdict,
                    cleaned, recleaned, reprocessed >>

\* process_text is called on its own result, when that is a text.
ProcessAgain ==
    /\ mpc = "filter"
    /\ processed \notin {Pending, None}
    /\ reprocessed = Pending
    /\ reprocessed' = process_text(min_length, processed)
    /\ UNCHANGED << monitor_vars, thread_vars, cycle_vars, main_vars, prompt_vars,
                    queue_vars, overlay_vars, taken_vars, env_vars, hides,
                    start_calls, min_length, raw_text, verdict,
                    cleaned, recleaned, processed >>

\* The next text arrives.
NextText ==
    /\ mpc = "filter"
    /\ verdict # "unset"
    /\ raw_text' \in Strings
    /\ verdict' = "unset"
    /\ cleaned' = Pending
    /\ recleaned' = Pending
    /\ processed' = Pending
    /\ reprocessed' = Pending
    /\ UNCHANGED << monitor_vars, thread_vars, cycle_vars, main_vars, prompt_vars,
                    queue_vars, overlay_vars, taken_vars, env_vars, hides,
                    start_calls, min_length >>

\* TextProcessor(min_length) and a first text.
TextInit ==
    /\ Start
    /\ mpc = "filter"
    /\ prompt_file = None
    /\ is_available = FALSE
    /\ clipboard = << >>
    /\ min_length \in 0..MaxMinLength
    /\ raw_text \in Strings
    /\ verdict = "unset"

TextNext ==
    \/ ShouldProcess \/ NextText
    \/ CleanText \/ CleanAgain \/ ProcessText \/ ProcessAgain

TextSpec == TextInit /\ [][TextNext]_vars

-----------------------------------------------------------------------------
(* The prompt manager on its own *)

\* PromptManager.__init__: _load_system_prompt raises when load_prompt returns
\* nothing.
LoadSystemPrompt ==
    /\ mpc = "prompt"
    /\ LET prompt == load_prompt(prompt_file)
       IN  IF Truthy(prompt)
           THEN /\ system_prompt' = prompt
                /\ mpc' = "prompt_ready"
                /\ UNCHANGED exc
           ELSE /\ exc' = "FileNotFoundError"
                /\ mpc' = "crashed"
                /\ UNCHANGED system_prompt
    /\ UNCHANGED << monitor_vars, thread_vars, cycle_vars, prompt_file, is_available,
                    prompt_out, queue_vars, overlay_vars, taken_vars, env_vars, hides,
                    start_calls, text_vars >>

\* get_prompt_for_text(raw_text) is called.
GetPromptForText ==
    /\ mpc = "prompt_ready"
    /\ prompt_out = NoPrompt
    /\ prompt_out' = get_prompt_for_text(system_prompt, raw_text)
    /\ UNCHANGED << monitor_vars, thread_vars, cycle_vars, main_vars, prompt_file,
                    system_prompt, is_available, queue_vars, overlay_vars, taken_vars,
                    env_vars, hides, start_calls, text_vars >>

\* PromptManager() on any prompt file, and any text.
PromptInit ==
    /\ Start
    /\ mpc = "prompt"
    /\ prompt_file \in TemplateFiles
    /\ is_available = FALSE
    /\ clipboard = << >>
    /\ min_length = DefaultMinLength
    /\ raw_text \in ClipTexts
    /\ verdict = "unset"

PromptNext == LoadSystemPrompt \/ GetPromptForText

PromptSpec == PromptInit /\ [][PromptNext]_vars

-----------------------------------------------------------------------------
(* The overlay's rendering on its own *)

\* The characters of a response: the marker, a letter, a line break.
MarkdownAlphabet == {"*", "x", "\n"}

RECURSIVE MarkdownUpTo(_)
MarkdownUpTo(n) ==
    IF n = 0 THEN {<< >>}
    ELSE LET shorter == MarkdownUpTo(n - 1)
         IN  shorter \cup {Append(s, c) : s \in {x \in shorter : Len(x) = n - 1},
                                          c \in MarkdownAlphabet}

\* _do_update_content(raw_text) on the hidden overlay.
DoUpdateContent ==
    /\ mpc = "render"
    /\ ~is_visible
    /\ text_content' = render_markdown(raw_text)
    /\ is_visible' = TRUE
    /\ UNCHANGED << monitor_vars, thread_vars, cycle_vars, main_vars, prompt_vars,
                    queue_vars, should_exit, window, taken_vars, env_vars, hides,
                    start_calls, text_vars >>

\* _do_hide on the visible overlay.
DoHide ==
    /\ mpc = "render"
    /\ is_visible
    /\ is_visible' = FALSE
    /\ UNCHANGED << monitor_vars, thread_vars, cycle_vars, main_vars, prompt_vars,
                    queue_vars, should_exit, window, text_content, taken_vars,
                    env_vars, hides, start_calls, text_vars >>

\* OverlayWindow() and any response text.
RenderInit ==
    /\ Start
    /\ mpc = "render"
    /\ prompt_file = None
    /\ is_available = FALSE
    /\ clipboard = << >>
    /\ min_length = DefaultMinLength
    /\ raw_text \in MarkdownUpTo(MaxMarkdown)
    /\ verdict = "unset"

RenderNext == DoUpdateContent \/ DoHide

RenderSpec == RenderInit /\ [][RenderNext]_vars

-----------------------------------------------------------------------------
(* Properties *)

\* A thread is inside _process_text: it has set is_processing and has not yet
\* cleared it.
InCycle(t) == pc[t] \in {"pt_prompt", "pt_wait", "pt_content", "pt_except", "pt_finally"}

\* The thread objects created so far.
Born == {t \in Threads : pc[t] # "unborn"}

\* The main thread has left run's while loop.
LoopLeft == mpc \in {"stop_join", "destroy", "returned", "crashed"} /\ exc # "FileNotFoundError"

\* C1: at most one execution of _process_text is between setting and clearing
\* is_processing, in the running application.
C1_AtMostOneCycle == Cardinality({t \in Threads : InCycle(t)}) <= 1

\* C1 witness: a second cycle is in flight, waiting for the provider, after a
\* first one has completed.
C1_Witness == \E t \in Threads : pc[t] = "pt_wait" /\ cycles = 2

\* C2: a text copied while a cycle was in flight (is_processing set) is
\* dropped: at most one provider call is outstanding, and no provider call is
\* ever made for a text that was copied during an earlier cycle.
C2_ChangeInFlightDropped ==
    /\ Cardinality({t \in Threads : pc[t] = "pt_wait"}) <= 1
    /\ \A t \in Threads : pc[t] = "pt_wait" => ~text_in_flight[t]

\* C3: the k-th command the UI thread takes is the k-th command that was
\* enqueued, and when it takes a cycle's content or error command it has
\* already applied that cycle's loading command.
C3_Fifo ==
    /\ taken > 0 => last_taken.seq = taken
    /\ last_taken.action \in {"content", "error"} => last_taken.cycle \in loaded

\* C3 witness: a cycle's content command is applied while the next cycle's
\* loading command is already queued behind it.
C3_Witness ==
    /\ last_taken.action = "content"
    /\ update_queue # << >>
    /\ Head(update_queue).action = "loading"

\* C4 as claimed: a cycle whose provider call failed (response None) has
\* enqueued loading and then exactly one error command when it ends.
C4_FailureEnqueuesError ==
    \A t \in Threads :
        pc[t] = "pt_finally" /\ response[t] = None => cycle_cmds[t] = << "loading", "error" >>

\* C5 as claimed: once the application is initialised, the main loop is left
\* only with should_exit set or by KeyboardInterrupt; no other exception
\* ends it.
C5_LoopLeftByCloseOrInterrupt == LoopLeft => should_exit \/ exc = "KeyboardInterrupt"

\* C6: whenever no thread is inside _process_text, is_processing is false:
\* every way out of _process_text clears it.
C6_FlagClearedOnExit == is_processing => \E t \in Threads : InCycle(t)

\* C6 witness: _process_text has returned through its except clause (the error
\* command is the newest in the queue) and is_processing is false.
C6_Witness ==
    /\ \E t \in Threads : pc[t] = "cb_return"
    /\ ~is_processing
    /\ update_queue # << >>
    /\ update_queue[Len(update_queue)].action = "error"

\* C7: while stop() waits in join, running is already false, and stop()
\* returns whatever the loop thread does.
C7_StopReturns ==
    /\ [](mpc = "join" => ~running)
    /\ (mpc = "join") ~> (mpc = "idle")

\* C7 witness: stop() has returned, the watcher is stopped, and the loop thread
\* it waited for is still inside the callback.
C7_Witness ==
    /\ mpc = "idle"
    /\ ~running
    /\ monitor_thread # NoThread
    /\ pc[monitor_thread] = "cb_entry"

\* C8: a start() call on a running watcher changes nothing of the watcher and
\* creates no thread; on a stopped watcher it sets running and creates exactly
\* one thread, at the start of the polling loop, kept in monitor_thread.
C8_StartOnce ==
    [][ start_calls' # start_calls =>
          IF running
          THEN UNCHANGED << running, last_text, monitor_thread, pc >>
          ELSE /\ running'
               /\ last_text' = last_text
               /\ \E u \in Threads :
                     /\ pc[u] = "unborn"
                     /\ pc' = [pc EXCEPT ![u] = "loop_init"]
                     /\ monitor_thread' = u ]_vars

\* C8 witness: start() was called twice, the second time on the running
\* watcher, and one thread exists.
C8_Witness == start_calls = 2 /\ running /\ Cardinality(Born) = 1

\* C9 as claimed: a text that is empty or all whitespace is rejected, whatever
\* min_length is.
C9_BlankRejected == verdict # "unset" /\ strip(raw_text) = << >> => verdict = "False"

\* C10 as claimed: with the default min_length every non-empty text is
\* accepted.
C10_NonEmptyAccepted ==
    verdict # "unset" /\ min_length = DefaultMinLength /\ raw_text # << >>
        => verdict = "True"

\* C10 amended: with the default min_length every text that is not blank
\* (non-empty once stripped) is accepted, whatever its characters.
C10_NonBlankAccepted ==
    verdict # "unset" /\ min_length = DefaultMinLength /\ strip(raw_text) # << >>
        => verdict = "True"

\* C10 witness: a text of an artifact character wrapped in whitespace was
\* accepted under the default min_length.
C10_Witness ==
    /\ verdict = "True"
    /\ min_length = DefaultMinLength
    /\ raw_text = << " ", "#", "\n" >>

\* C11: cleaning a cleaned text changes nothing, and neither does processing
\* a processed text.
C11_CleanIdempotent ==
    /\ recleaned # Pending => recleaned = cleaned
    /\ reprocessed # Pending => reprocessed = processed

\* x occurs in s as a contiguous piece.
Within(x, s) ==
    \E i \in 0..(Len(s) - Len(x)) : SubSeq(s, i + 1, i + Len(x)) = x

\* C12: for a template that contains {subtitle_text}, get_prompt_for_text
\* returns without raising, and its result contains the text and no longer
\* the placeholder.
C12_PrimaryPlaceholderReplaced ==
    prompt_out # NoPrompt /\ Contains(system_prompt, PrimaryField)
        => /\ prompt_out.exc = "none"
           /\ Within(raw_text, prompt_out.val)
           /\ ~Within(<< PrimaryField >>, prompt_out.val)

\* The text is ***x*** for a non-empty x of letters only.
TripleSpan(text) ==
    /\ Len(text) >= 7
    /\ \A i \in 1..Len(text) :
          IF i <= 3 \/ i > Len(text) - 3 THEN text[i] = "*" ELSE text[i] = "x"

\* C13: once ***x*** has been rendered, the widget shows x, the only range is
\* bold_italic over all of x, and no marker is left.
C13_TripleSpanRendered ==
    is_visible /\ TripleSpan(raw_text)
        => LET x == SubSeq(raw_text, 4, Len(raw_text) - 3)
           IN  /\ text_content.text = x
               /\ text_content.tags =
                     << [start |-> 0, end |-> Len(x), tag |-> "bold_italic"] >>
               /\ \A i \in 1..Len(x) : text_content.text[i] # "*"

\* C13 witness: ***xx*** has been rendered and the widget shows xx.
C13_Witness ==
    /\ is_visible
    /\ raw_text = << "*", "*", "*", "x", "x", "*", "*", "*" >>
    /\ text_content.text = << "x", "x" >>

C15_BackgroundOnlyEnqueues ==
    [][ (\E t \in Threads : pc[t] # "unborn" /\ pc'[t] # pc[t])
          => /\ is_visible' = is_visible
             /\ text_content' = text_content
             /\ Len(update_queue') >= Len(update_queue)
             /\ SubSeq(update_queue', 1, Len(update_queue)) = update_queue ]_vars

\* C15 witness: the background thread has enqueued its loading command and is
\* inside the cycle, and the overlay is still hidden and empty.
C15_Witness ==
    /\ \E t \in Threads : pc[t] = "pt_prompt"
    /\ Len(update_queue) = 1
    /\ update_queue[1].action = "loading"
    /\ taken = 0
    /\ ~is_visible
    /\ text_content = Plain(<< >>)

\* C16: the UI thread leaves the drain of a tick (other than by Ctrl+C) only
\* from an empty queue: no command that was queued during the drain is left
\* behind unapplied.
C16_DrainNeverPartial ==
    [][ mpc = "ui_drain" /\ mpc' # "ui_drain" /\ exc' # "KeyboardInterrupt"
          => update_queue = << >> \/ Tail(update_queue) = << >> ]_vars

\* C17: a loop thread ends only at its while test with running false; after
\* an exception of the callback it goes back to the while test; a clipboard
\* read that fails goes back to the while test with last_text unchanged and
\* without calling the callback; and the while test with running true starts
\* another iteration.
C17_LoopEndsOnlyWhenStopped ==
    [][ \A t \in Threads :
          /\ pc[t] # "ended" /\ pc'[t] = "ended"
                => pc[t] = "loop_while" /\ ~running
          /\ pc[t] = "cb_raise" /\ pc'[t] # pc[t]
                => pc'[t] = "loop_while"
          /\ pc[t] = "loop_read" /\ pc'[t] # pc[t]
                => \/ pc'[t] = "loop_cmp"
                   \/ pc'[t] = "loop_while" /\ last_text' = last_text
          /\ pc[t] = "loop_while" /\ pc'[t] # pc[t] /\ running
                => pc'[t] = "loop_read" ]_vars

\* C17 witness: the callback has raised in a thread of the running watcher.
C17_Witness == \E t \in Threads : pc[t] = "cb_raise" /\ running /\ monitor_thread = t

\* C18: after a read, the iteration goes on to the callback exactly when the
\* text read differs from last_text and is not blank; it then sets last_text
\* to that text in the step that calls the callback; the callback is entered
\* from nowhere else, and nothing else but the loop's first read changes
\* last_text.
C18_CallbackIffChanged ==
    [][ /\ \A t \in Threads :
             /\ pc[t] = "loop_cmp" /\ pc'[t] # pc[t]
                   => /\ pc'[t] \in {"loop_fire", "loop_while"}
                      /\ pc'[t] = "loop_fire"
                            <=> /\ current_text[t] # last_text
                                /\ strip(current_text[t]) # << >>
             /\ pc[t] = "loop_fire" /\ pc'[t] # pc[t]
                   => pc'[t] = "cb_entry" /\ last_text' = current_text[t]
             /\ pc[t] # "cb_entry" /\ pc'[t] = "cb_entry"
                   => pc[t] = "loop_fire"
        /\ last_text' # last_text
              => \E t \in Threads : pc[t] \in {"loop_init", "loop_fire"} /\ pc'[t] # pc[t]
      ]_vars

\* C18 witness: the callback has raised and last_text is the text it was
\* called with.
C18_Witness ==
    \E t \in Threads :
        /\ pc[t] = "cb_raise"
        /\ current_text[t] # << >>
        /\ last_text = current_text[t]

\* C19: a cycle that has started is never cut off: when the process has
\* ended, no thread is left inside a cycle with is_processing set.
C19_CycleNeverCutOff == ~ProcessAlive => ~is_processing

\* C19 amended: while the process lives, a thread inside a cycle gets to the
\* end of the cycle, whatever the main thread does meanwhile.
C19_CycleCompletesWhileAlive ==
    \A t \in Threads :
        InCycle(t) ~> ((pc[t] = "cb_return" /\ ~is_processing) \/ ~ProcessAlive)

\* C19 witness: stop() has been called and its join has timed out while the
\* thread was inside the cycle, and the thread has gone on to enqueue its
\* content command and is about to clear is_processing.
C19_Witness ==
    \E t \in Threads :
        /\ pc[t] = "pt_finally"
        /\ is_processing
        /\ ~running
        /\ mpc = "destroy"
        /\ update_queue # << >>
        /\ update_queue[Len(update_queue)].action = "content"

\* The main thread is in the main loop of run / has left it for _cleanup.
InMainLoop == mpc \in {"ui_test", "ui_drain"}
InShutdown == mpc \in {"stop_join", "destroy", "returned"} \/ (mpc = "crashed" /\ ~window)

\* C20: the main loop is left into _cleanup, which first stops the watcher and
\* only then destroys the overlay; once shutdown has begun the main thread
\* never returns to the loop, the watcher stays stopped and the overlay is
\* destroyed once.
C20_ShutdownInOrder ==
    [][ /\ InMainLoop /\ ~InMainLoop' => InShutdown' /\ ~running' /\ window'
        /\ window /\ ~window' => mpc = "destroy" /\ ~running /\ ~running'
        /\ InShutdown => InShutdown' /\ ~running'
        /\ ~window => ~window' ]_vars

\* C20 witness: the user has closed the window, the loop has ended, the
\* watcher is stopped and the overlay destroyed.
C20_Witness ==
    /\ mpc = "returned"
    /\ should_exit
    /\ exc = "none"
    /\ ~running
    /\ ~window

\* C21: before the UI thread has taken any command the overlay is hidden;
\* after the last command it took, is_visible is false if that command was
\* hide and true if it was show, loading, content or error.
C21_VisibleReflectsLastCommand ==
    /\ taken = 0 => ~is_visible
    /\ taken > 0 => is_visible = (last_taken.action # "hide")

\* C22: a provider call is outstanding only for a captured text that
\* process_text accepts, and the text of the request is what process_text
\* returns for it.
C22_ProviderGetsFilteredText ==
    \A t \in Threads :
        pc[t] = "pt_wait"
            => /\ process_text(DefaultMinLength, current_text[t]) # None
               /\ request[t].user = process_text(DefaultMinLength, current_text[t])

\* C23: at most one thread is inside an iteration of the polling loop (past
\* the while test, up to the call of the callback) at any time.
C23_OnePollingLoop ==
    Cardinality({t \in Threads : pc[t] \in {"loop_read", "loop_cmp", "loop_fire"}}) <= 1

\* C24: a cycle that has reached its finally clause has enqueued loading and
\* then one of content and error, and nothing else; before that it has
\* enqueued loading only; and the queue has received two commands for every
\* finished cycle besides the user's hide commands.
C24_TwoCommandsPerCycle ==
    /\ \A t \in Threads :
          /\ pc[t] = "pt_finally"
                => cycle_cmds[t] \in { << "loading", "content" >>, << "loading", "error" >> }
          /\ pc[t] \in {"pt_prompt", "pt_wait", "pt_content", "pt_except"}
                => cycle_cmds[t] = << "loading" >>
    /\ puts = hides + 2 * cycles
                - Cardinality({t \in Threads :
                                 pc[t] \in {"pt_prompt", "pt_wait", "pt_content", "pt_except"}})

\* C24 witness: a cycle has taken the exception path and has enqueued loading
\* and error.
C24_Witness ==
    \E t \in Threads :
        /\ pc[t] = "pt_finally"
        /\ cycle_cmds[t] = << "loading", "error" >>
        /\ puts = 2

\* A thread is about to call the callback or is inside it.
Firing(t) == pc[t] \in {"loop_fire", "cb_entry", "cb_return", "cb_raise"}

\* C25 as claimed: the text that was on the clipboard when the polling loop
\* started does not trigger the callback: while the user has copied nothing
\* new, no loop is about to call the callback or inside it.
C25_InitialContentNeverFires ==
    copies = 0 => \A t \in Threads : ~Firing(t)

\* C26: two consecutive callback invocations by one polling loop never carry
\* the same text: a loop that is about to call the callback holds a text other
\* than the one it called the callback with last.
C26_NoRepeatedText ==
    \A t \in Threads : pc[t] = "loop_fire" => current_text[t] # last_fired[t]

====
